---- MODULE Spec2Model ----
(***************************************************************************)
(* A model of libmimemail: the attachment and email value objects, their   *)
(* binary serialization, and email::send().                                *)
(*                                                                         *)
(* Conventions of the model                                                *)
(*  - a std::string is a sequence of tokens (a token is a character or an  *)
(*    indivisible piece of text); the empty string is << >>;               *)
(*  - header and parameter names are single strings, "" is the empty name; *)
(*  - a header_map_t is a function from the case-folded name (the key the  *)
(*    case insensitive comparison sees) to [name, value], where name is    *)
(*    the spelling stored when the entry was created;                      *)
(*  - an operation of the library is an operator returning                 *)
(*    [err, obj, ...]: err = "none" when the call returns normally, else   *)
(*    the exception thrown, and obj the receiver after the call.           *)
(***************************************************************************)
EXTENDS Integers, Sequences, FiniteSets, TLC

VARIABLES
    att,        \* the attachment objects the caller holds, by identifier
    email,      \* the email object the caller holds
    last,       \* the last call made by the caller and its outcome
    nops        \* number of calls made so far

vars == <<att, email, last, nops>>

-----------------------------------------------------------------------------
(* Bounds of the model *)

MaxAttOps == 3
MaxEmailOps == 3
MaxSendOps == 5
MaxRenderOps == 6

AttIds == {"x", "y"}

NUL == "\\0"

-----------------------------------------------------------------------------
(* Outcomes *)

Ok(o) == [err |-> "none", obj |-> o]
Throw(e, o) == [err |-> e, obj |-> o]

-----------------------------------------------------------------------------
(* Names (libmimemail/names.an, edhttp/names.an) *)

g_name_libmimemail_email_from == "From"
g_name_libmimemail_email_to == "To"
g_name_libmimemail_email_subject == "Subject"
g_name_libmimemail_email_date == "Date"
g_name_libmimemail_email_mime_version == "MIME-Version"
g_name_libmimemail_email_x_priority == "X-Priority"
g_name_libmimemail_email_x_msmail_priority == "X-MSMail-Priority"
g_name_libmimemail_email_importance == "Importance"
g_name_libmimemail_email_precedence == "Precedence"
g_name_edhttp_field_content_type == "Content-Type"
g_name_edhttp_field_content_transfer_encoding == "Content-Transfer-Encoding"
g_name_edhttp_field_content_disposition == "Content-Disposition"
g_name_edhttp_field_content_language == "Content-Language"
g_name_edhttp_param_quoted_printable == <<"quoted-printable">>

-----------------------------------------------------------------------------
(* header_map_t: std::map<snapdev::case_insensitive_string, std::string> *)

\* the folding the case insensitive comparison applies to a name
case_fold ==
    ("From" :> "from") @@ ("FROM" :> "from") @@ ("To" :> "to")
    @@ ("Subject" :> "subject") @@ ("Date" :> "date")
    @@ ("MIME-Version" :> "mime-version")
    @@ ("X-Priority" :> "x-priority")
    @@ ("X-MSMail-Priority" :> "x-msmail-priority")
    @@ ("Importance" :> "importance") @@ ("Precedence" :> "precedence")
    @@ ("Content-Type" :> "content-type")
    @@ ("Content-Transfer-Encoding" :> "content-transfer-encoding")
    @@ ("Content-Disposition" :> "content-disposition")
    @@ ("Content-Language" :> "content-language")
    @@ ("Content-ID" :> "content-id")
    @@ ("Bcc" :> "bcc") @@ ("Sender" :> "sender")

to_case_insensitive_string(name) ==
    IF name \in DOMAIN case_fold THEN case_fold[name] ELSE name

\* the order in which a std::map iterates: sorted by (case folded) key
key_order ==
    << "", "bcc", "content-disposition", "content-id", "content-language",
       "content-transfer-encoding", "content-type", "date", "from",
       "importance", "mime-version", "p", "precedence", "q", "sender",
       "subject", "to", "x-msmail-priority", "x-priority" >>

map_keys(m) == SelectSeq(key_order, LAMBDA k : k \in DOMAIN m)

empty_map == [k \in {} |-> k]

\* f_headers.find(name) != f_headers.end()
header_has(h, name) == to_case_insensitive_string(name) \in DOMAIN h

\* a map whose assignment replaces the key of an existing entry as well
header_set_respelled(h, name, value) ==
    LET k == to_case_insensitive_string(name) IN
    [x \in DOMAIN h \cup {k} |->
        IF x = k THEN [name |-> name, value |-> value] ELSE h[x]]

\* f_headers[name] = value: an existing entry keeps its key
header_set(h, name, value) ==
    LET k == to_case_insensitive_string(name) IN
    IF k \in DOMAIN h
    THEN [h EXCEPT ![k].value = value]
    ELSE [x \in DOMAIN h \cup {k} |->
            IF x = k THEN [name |-> name, value |-> value] ELSE h[x]]

\* it = f_headers.find(name); if(it != end) erase(it)
header_erase(h, name) ==
    [x \in DOMAIN h \ {to_case_insensitive_string(name)} |-> h[x]]

\* it = f_headers.find(name); it != end ? it->second : std::string()
header_value(h, name) ==
    IF header_has(h, name)
    THEN h[to_case_insensitive_string(name)].value
    ELSE << >>

\* std::map operator ==: same keys under the key's (case insensitive)
\* equality, same values
header_map_eq(h1, h2) ==
    /\ DOMAIN h1 = DOMAIN h2
    /\ \A k \in DOMAIN h1 : h1[k].value = h2[k].value

-----------------------------------------------------------------------------
(* External collaborators of the attachment *)

\* edhttp::get_mime_type(): the magic library's guess from the content
get_mime_type(data) ==
    IF data = << >> THEN <<"inode/x-empty">>
    ELSE IF Head(data) = "<" THEN <<"text/html">>
    ELSE IF NUL \in {data[n] : n \in 1..Len(data)}
         THEN <<"application/octet-stream">>
    ELSE <<"text/plain">>

\* edhttp::quoted_printable_encode(): "=" and non printable bytes are
\* escaped as =XX, everything else is copied
RECURSIVE quoted_printable_encode(_)
quoted_printable_encode(data) ==
    IF data = << >> THEN << >>
    ELSE (IF Head(data) = "=" THEN <<"=", "3", "D">>
          ELSE IF Head(data) = NUL THEN <<"=", "0", "0">>
          ELSE <<Head(data)>>) \o quoted_printable_encode(Tail(data))

\* edhttp::quoted_printable_decode()
RECURSIVE quoted_printable_decode(_)
quoted_printable_decode(data) ==
    IF data = << >> THEN << >>
    ELSE IF Head(data) = "=" /\ Len(data) >= 3
         THEN (IF SubSeq(data, 2, 3) = <<"3", "D">> THEN <<"=">>
               ELSE IF SubSeq(data, 2, 3) = <<"0", "0">> THEN <<NUL>>
               ELSE << >>) \o quoted_printable_decode(SubSeq(data, 4, Len(data)))
    ELSE <<Head(data)>> \o quoted_printable_decode(Tail(data))

\* a basename() that keeps the first component of the path
basename_of_first(filename) ==
    IF filename = << >> THEN "" ELSE filename[1]

\* snapdev::pathinfo::basename(): a path is its sequence of components
basename(filename) ==
    IF filename = << >> THEN "" ELSE filename[Len(filename)]

\* edhttp::uri::urlencode()
urlencode(s) == IF s = "my file.pdf" THEN "my%20file.pdf" ELSE s

\* edhttp::date_to_string(t, DATE_FORMAT_EMAIL)
date_to_string(t) ==
    IF t = 1 THEN "Thu, 01 Jan 1970 00:00:01 +0000"
    ELSE IF t = 2 THEN "Thu, 01 Jan 1970 00:00:02 +0000"
    ELSE "Thu, 01 Jan 1970 00:00:03 +0000"

-----------------------------------------------------------------------------
(* attachment *)

\* attachment::attachment() with the member initializers of attachment.h
new_attachment ==
    [headers |-> empty_map, data |-> << >>, is_sub |-> FALSE, related |-> << >>]

set_data(a, data, mime_type) ==
    LET mt == IF mime_type = << >> THEN get_mime_type(data) ELSE mime_type IN
    Ok([a EXCEPT !.data = data,
                 !.headers = header_set(@, g_name_edhttp_field_content_type, mt)])

attachment_add_header(a, name, value) ==
    IF name = ""
    THEN Throw("invalid_parameter", a)
    ELSE Ok([a EXCEPT !.headers = header_set(@, name, value)])

quoted_printable_encode_and_set_data(a, data, mime_type) ==
    LET encoded_data == quoted_printable_encode(data) IN
    attachment_add_header(set_data(a, encoded_data, mime_type).obj,
                          g_name_edhttp_field_content_transfer_encoding,
                          g_name_edhttp_param_quoted_printable)

attachment_get_header(a, name) ==
    IF name = ""
    THEN [err |-> "invalid_parameter", value |-> << >>]
    ELSE [err |-> "none", value |-> header_value(a.headers, name)]

\* now is the value of time(nullptr) at the call
set_content_disposition(a, filename, modification_date, attachment_type, now) ==
    IF attachment_type = ""
    THEN Throw("invalid_parameter", a)
    ELSE
        LET date == IF modification_date = 0 THEN now ELSE modification_date
            content_disposition ==
                <<attachment_type, ";">>
                \o (IF basename(filename) # ""
                    THEN <<" ", "filename", "=", urlencode(basename(filename)), ";">>
                    ELSE << >>)
                \o <<" ", "modification-date", "=\"", date_to_string(date), "\";">>
        IN attachment_add_header(a, g_name_edhttp_field_content_disposition,
                                 content_disposition)

attachment_remove_header(a, name) ==
    Ok([a EXCEPT !.headers = header_erase(@, name)])

get_related_count(a) == Len(a.related)

\* add_related() without the test of the receiver's f_is_sub_attachment
add_related_any_receiver(a, data) ==
    IF get_related_count(data) # 0
    THEN [err |-> "too_many_levels", obj |-> a, data |-> data]
    ELSE [err |-> "none",
          obj |-> [a EXCEPT !.related = Append(@, [data EXCEPT !.is_sub = TRUE])],
          data |-> data]

\* add_related() without the test of the parameter's related count
add_related_any_parameter(a, data) ==
    IF a.is_sub
    THEN [err |-> "too_many_levels", obj |-> a, data |-> data]
    ELSE [err |-> "none",
          obj |-> [a EXCEPT !.related = Append(@, [data EXCEPT !.is_sub = TRUE])],
          data |-> data]

\* add_related() marking the caller's object instead of a copy of it
add_related_marks_parameter(a, data) ==
    IF a.is_sub \/ get_related_count(data) # 0
    THEN [err |-> "too_many_levels", obj |-> a, data |-> data]
    ELSE [err |-> "none",
          obj |-> [a EXCEPT !.related = Append(@, [data EXCEPT !.is_sub = TRUE])],
          data |-> [data EXCEPT !.is_sub = TRUE]]

\* data is the (const) reference parameter: the result also says what the
\* caller's object is after the call
add_related(a, data) ==
    IF a.is_sub
    THEN [err |-> "too_many_levels", obj |-> a, data |-> data]
    ELSE IF get_related_count(data) # 0
    THEN [err |-> "too_many_levels", obj |-> a, data |-> data]
    ELSE LET copy == [data EXCEPT !.is_sub = TRUE] IN
         [err |-> "none",
          obj |-> [a EXCEPT !.related = Append(@, copy)],
          data |-> data]

get_related(a, index) ==
    IF index < 0 \/ index >= Len(a.related)
    THEN Throw("libmimemail_out_of_range", new_attachment)
    ELSE Ok(a.related[index + 1])

\* attachment::operator ==
RECURSIVE attachment_eq(_, _)
attachment_eq(a, b) ==
    /\ header_map_eq(a.headers, b.headers)
    /\ a.data = b.data
    /\ a.is_sub = b.is_sub
    /\ Len(a.related) = Len(b.related)
    /\ \A n \in 1..Len(a.related) : attachment_eq(a.related[n], b.related[n])

-----------------------------------------------------------------------------
(* snapdev serializer: a stream is the sequence of the fields written; a  *)
(* field has a name, a sub-name, and either a value or, for a recursive   *)
(* field, the block of fields written inside it                           *)

add_value(name, sub_name, value) ==
    [name |-> name, sub |-> sub_name, val |-> value, block |-> << >>]

recursive(name, fields) ==
    [name |-> name, sub |-> "", val |-> << >>, block |-> fields]

\* the headers loop of serialize(): one "header" field per entry, in the
\* order of the map, tagged with the stored spelling of the name
serialize_headers(h) ==
    LET ks == map_keys(h) IN
    [n \in 1..Len(ks) |-> add_value("header", h[ks[n]].name, h[ks[n]].value)]

RECURSIVE attachment_serialize(_)

\* serialize() without the loop over f_sub_attachments
attachment_serialize_no_related(a) ==
    serialize_headers(a.headers) \o <<add_value("data", "", a.data)>>

attachment_serialize(a) ==
    serialize_headers(a.headers)
    \o [n \in 1..Len(a.related) |->
            recursive("attachment", attachment_serialize(a.related[n]))]
    \o <<add_value("data", "", a.data)>>

RECURSIVE attachment_deserialize(_, _, _)
RECURSIVE attachment_process_hunk(_, _)
RECURSIVE attachment_hunks(_, _)

\* a process_hunk() that reads a field of an unknown name as the data
attachment_process_hunk_unknown_as_data(a, field) ==
    IF field.name = "header"
    THEN Ok([a EXCEPT !.headers = header_set(@, field.sub, field.val)])
    ELSE IF field.name = "attachment"
    THEN LET r == attachment_deserialize(new_attachment, field.block, TRUE) IN
         IF r.err # "none"
         THEN Throw(r.err, a)
         ELSE LET s == add_related(a, r.obj) IN [err |-> s.err, obj |-> s.obj]
    ELSE Ok([a EXCEPT !.data = field.val])

attachment_process_hunk(a, field) ==
    IF field.name = "header"
    THEN Ok([a EXCEPT !.headers = header_set(@, field.sub, field.val)])
    ELSE IF field.name = "attachment"
    THEN LET r == attachment_deserialize(new_attachment, field.block, TRUE) IN
         IF r.err # "none"
         THEN Throw(r.err, a)
         ELSE LET s == add_related(a, r.obj) IN [err |-> s.err, obj |-> s.obj]
    ELSE IF field.name = "data"
    THEN Ok([a EXCEPT !.data = field.val])
    ELSE Ok(a)

\* in.deserialize(func): the callback runs on every field of the block; an
\* exception of the callback leaves through deserialize()
attachment_hunks(a, in) ==
    IF in = << >>
    THEN Ok(a)
    ELSE LET r == attachment_process_hunk(a, Head(in)) IN
         IF r.err # "none" THEN r ELSE attachment_hunks(r.obj, Tail(in))

attachment_deserialize(a, in, is_sub_attachment) ==
    attachment_hunks([a EXCEPT !.is_sub = is_sub_attachment], in)

-----------------------------------------------------------------------------
(* External collaborator of the email: libtld's address parser *)

\* one mailbox of a list: its bare address (f_email_only), "" when the text
\* is no valid address
mailbox ==
    ("a@b.com" :> "a@b.com") @@ ("Al <a@b.com>" :> "a@b.com")
    @@ ("c@d.com" :> "c@d.com")

\* tld_email_list::parse(): [result, emails]; an input without any address
\* is not a success (see the comment in email::set_to())
RECURSIVE tld_email_list_parse(_)
tld_email_list_parse(v) ==
    IF v = << >> \/ Head(v) \notin DOMAIN mailbox
    THEN [result |-> "TLD_RESULT_INVALID", emails |-> << >>]
    ELSE IF Len(v) = 1
    THEN [result |-> "TLD_RESULT_SUCCESS", emails |-> <<mailbox[Head(v)]>>]
    ELSE IF v[2] # ", "
    THEN [result |-> "TLD_RESULT_INVALID", emails |-> << >>]
    ELSE LET rest == tld_email_list_parse(SubSeq(v, 3, Len(v))) IN
         IF rest.result # "TLD_RESULT_SUCCESS"
         THEN rest
         ELSE [result |-> "TLD_RESULT_SUCCESS",
               emails |-> <<mailbox[Head(v)]>> \o rest.emails]

\* tld_email_list::email_field_type()
email_field_type(name) ==
    LET k == to_case_insensitive_string(name) IN
    IF k \in {"", "bad name"} THEN "TLD_EMAIL_FIELD_TYPE_INVALID"
    ELSE IF k = "sender" THEN "TLD_EMAIL_FIELD_TYPE_MAILBOX"
    ELSE IF k = "from" THEN "TLD_EMAIL_FIELD_TYPE_MAILBOX_LIST"
    ELSE IF k = "to" THEN "TLD_EMAIL_FIELD_TYPE_ADDRESS_LIST"
    ELSE IF k = "bcc" THEN "TLD_EMAIL_FIELD_TYPE_ADDRESS_LIST_OPT"
    ELSE "TLD_EMAIL_FIELD_TYPE_UNKNOWN"

-----------------------------------------------------------------------------
(* email *)

EMAIL_MAJOR_VERSION == 1
EMAIL_MINOR_VERSION == 1

\* email::email() with the member initializers of the class; t is
\* time(nullptr) at the construction
new_email(t) ==
    [branding |-> TRUE, cumulative |-> << >>, site_key |-> << >>,
     email_path |-> << >>, email_key |-> << >>, time |-> t,
     headers |-> empty_map, attachments |-> << >>, parameters |-> empty_map]

set_branding(e, branding) == Ok([e EXCEPT !.branding = branding])
set_cumulative(e, object) == Ok([e EXCEPT !.cumulative = object])
set_site_key(e, site_key) == Ok([e EXCEPT !.site_key = site_key])
set_email_path(e, email_path) == Ok([e EXCEPT !.email_path = email_path])
set_email_key(e, email_key) == Ok([e EXCEPT !.email_key = email_key])

\* set_from() without the test of the number of addresses
set_from_any_count(e, from) ==
    IF tld_email_list_parse(from).result # "TLD_RESULT_SUCCESS"
    THEN Throw("invalid_parameter", e)
    ELSE Ok([e EXCEPT !.headers = header_set(@, g_name_libmimemail_email_from, from)])

set_from(e, from) ==
    LET emails == tld_email_list_parse(from) IN
    IF emails.result # "TLD_RESULT_SUCCESS"
    THEN Throw("invalid_parameter", e)
    ELSE IF Len(emails.emails) # 1
    THEN Throw("invalid_parameter", e)
    ELSE Ok([e EXCEPT !.headers = header_set(@, g_name_libmimemail_email_from, from)])

set_to(e, to) ==
    LET emails == tld_email_list_parse(to) IN
    IF emails.result # "TLD_RESULT_SUCCESS"
    THEN Throw("invalid_parameter", e)
    ELSE IF Len(emails.emails) < 1
    THEN Throw("invalid_parameter", e)
    ELSE Ok([e EXCEPT !.headers = header_set(@, g_name_libmimemail_email_to, to)])

\* the labels of the five levels (names.an)
priority_name ==
    <<"bulk", "low", "normal", "high", "urgent">>

\* std::to_string(static_cast<int>(priority))
int_to_string == <<"1", "2", "3", "4", "5">>

\* a set_priority() that takes a level it does not know for NORMAL
set_priority_defaulting(e, priority) ==
    LET p == IF priority \in 1..5 THEN priority ELSE 3
        name == priority_name[p]
        h1 == header_set(e.headers, g_name_libmimemail_email_x_priority,
                         <<int_to_string[p], " (", name, ")">>)
        h2 == header_set(h1, g_name_libmimemail_email_x_msmail_priority, <<name>>)
        h3 == header_set(h2, g_name_libmimemail_email_importance, <<name>>)
        h4 == header_set(h3, g_name_libmimemail_email_precedence, <<name>>)
    IN Ok([e EXCEPT !.headers = h4])

set_priority(e, priority) ==
    IF priority \notin 1..5
    THEN Throw("invalid_parameter", e)
    ELSE LET name == priority_name[priority]
             h1 == header_set(e.headers, g_name_libmimemail_email_x_priority,
                              <<int_to_string[priority], " (", name, ")">>)
             h2 == header_set(h1, g_name_libmimemail_email_x_msmail_priority, <<name>>)
             h3 == header_set(h2, g_name_libmimemail_email_importance, <<name>>)
             h4 == header_set(h3, g_name_libmimemail_email_precedence, <<name>>)
         IN Ok([e EXCEPT !.headers = h4])

set_subject(e, subject) ==
    Ok([e EXCEPT !.headers = header_set(@, g_name_libmimemail_email_subject, subject)])

\* an add_header() that stores the field before it checks the addresses
email_add_header_checks_last(e, name, value) ==
    LET type == email_field_type(name)
        emails == tld_email_list_parse(value)
        stored == [e EXCEPT !.headers = header_set(@, name, value)]
    IN
    IF type = "TLD_EMAIL_FIELD_TYPE_INVALID"
    THEN Throw("invalid_parameter", e)
    ELSE IF /\ type # "TLD_EMAIL_FIELD_TYPE_UNKNOWN"
            /\ (type # "TLD_EMAIL_FIELD_TYPE_ADDRESS_LIST_OPT" \/ value # << >>)
            /\ emails.result # "TLD_RESULT_SUCCESS"
    THEN Throw("invalid_parameter", stored)
    ELSE IF /\ type # "TLD_EMAIL_FIELD_TYPE_UNKNOWN"
            /\ (type # "TLD_EMAIL_FIELD_TYPE_ADDRESS_LIST_OPT" \/ value # << >>)
            /\ type = "TLD_EMAIL_FIELD_TYPE_MAILBOX"
            /\ Len(emails.emails) # 1
    THEN Throw("invalid_parameter", stored)
    ELSE Ok(stored)

email_add_header(e, name, value) ==
    LET type == email_field_type(name)
        emails == tld_email_list_parse(value)
    IN
    IF type = "TLD_EMAIL_FIELD_TYPE_INVALID"
    THEN Throw("invalid_parameter", e)
    ELSE IF /\ type # "TLD_EMAIL_FIELD_TYPE_UNKNOWN"
            /\ (type # "TLD_EMAIL_FIELD_TYPE_ADDRESS_LIST_OPT" \/ value # << >>)
            /\ emails.result # "TLD_RESULT_SUCCESS"
    THEN Throw("invalid_parameter", e)
    ELSE IF /\ type # "TLD_EMAIL_FIELD_TYPE_UNKNOWN"
            /\ (type # "TLD_EMAIL_FIELD_TYPE_ADDRESS_LIST_OPT" \/ value # << >>)
            /\ type = "TLD_EMAIL_FIELD_TYPE_MAILBOX"
            /\ Len(emails.emails) # 1
    THEN Throw("invalid_parameter", e)
    ELSE Ok([e EXCEPT !.headers = header_set(@, name, value)])

email_remove_header(e, name) ==
    Ok([e EXCEPT !.headers = header_erase(@, name)])

email_get_header(e, name) ==
    IF name = ""
    THEN [err |-> "invalid_parameter", value |-> << >>]
    ELSE [err |-> "none", value |-> header_value(e.headers, name)]

\* a set_body_attachment() that puts the body at the end of the list
set_body_attachment_at_end(e, data) ==
    Ok([e EXCEPT !.attachments = Append(@, data)])

set_body_attachment(e, data) ==
    Ok([e EXCEPT !.attachments = <<data>> \o @])

add_attachment(e, data) ==
    Ok([e EXCEPT !.attachments = Append(@, data)])

get_attachment_count(e) == Len(e.attachments)

\* f_parameters[name] = value on a std::map<std::string, std::string>
parameter_set(p, name, value) ==
    [x \in DOMAIN p \cup {name} |-> IF x = name THEN value ELSE p[x]]

\* the order in which the std::map of the parameters iterates
parameter_order == <<"From", "To", "p", "q">>

add_parameter(e, name, value) ==
    IF name = ""
    THEN Throw("invalid_parameter", e)
    ELSE Ok([e EXCEPT !.parameters = parameter_set(@, name, value)])

get_parameter(e, name) ==
    IF name = ""
    THEN [err |-> "invalid_parameter", value |-> << >>]
    ELSE [err |-> "none",
          value |-> IF name \in DOMAIN e.parameters THEN e.parameters[name] ELSE << >>]

\* how the serializer writes a bool and how read_data() reads it back
bool_to_value(b) == IF b THEN <<"1">> ELSE <<"0">>
value_to_bool(v) == v # <<"0">>

email_serialize(e) ==
    LET ps == SelectSeq(parameter_order, LAMBDA k : k \in DOMAIN e.parameters) IN
       <<add_value("version", "",
                   <<int_to_string[EMAIL_MAJOR_VERSION], ".",
                     int_to_string[EMAIL_MINOR_VERSION]>>)>>
    \o <<add_value("branding", "", bool_to_value(e.branding))>>
    \o (IF e.cumulative # << >>
        THEN <<add_value("cumulative", "", e.cumulative)>> ELSE << >>)
    \o <<add_value("site_key", "", e.site_key)>>
    \o <<add_value("email_path", "", e.email_path)>>
    \o <<add_value("email_key", "", e.email_key)>>
    \o serialize_headers(e.headers)
    \o [n \in 1..Len(e.attachments) |->
            recursive("attachment", attachment_serialize(e.attachments[n]))]
    \o [n \in 1..Len(ps) |-> add_value("parameter", ps[n], e.parameters[ps[n]])]

email_process_hunk(e, field) ==
    IF field.name = "attachment"
    THEN LET r == attachment_deserialize(new_attachment, field.block, FALSE) IN
         IF r.err # "none" THEN Throw(r.err, e) ELSE add_attachment(e, r.obj)
    ELSE IF field.name = "branding"
    THEN Ok([e EXCEPT !.branding = value_to_bool(field.val)])
    ELSE IF field.name = "cumulative"
    THEN Ok([e EXCEPT !.cumulative = field.val])
    ELSE IF field.name = "email_path"
    THEN Ok([e EXCEPT !.email_path = field.val])
    ELSE IF field.name = "email_key"
    THEN Ok([e EXCEPT !.email_key = field.val])
    ELSE IF field.name = "header"
    THEN Ok([e EXCEPT !.headers = header_set(@, field.sub, field.val)])
    ELSE IF field.name = "parameter"
    THEN Ok([e EXCEPT !.headers = header_set(@, field.sub, field.val)])
    ELSE IF field.name = "site_key"
    THEN Ok([e EXCEPT !.site_key = field.val])
    ELSE Ok(e)

RECURSIVE email_hunks(_, _)
email_hunks(e, in) ==
    IF in = << >>
    THEN Ok(e)
    ELSE LET r == email_process_hunk(e, Head(in)) IN
         IF r.err # "none" THEN r ELSE email_hunks(r.obj, Tail(in))

email_deserialize(e, in) == email_hunks(e, in)

\* email::operator ==: every member but f_time
email_eq(a, b) ==
    /\ a.branding = b.branding
    /\ a.cumulative = b.cumulative
    /\ a.site_key = b.site_key
    /\ a.email_path = b.email_path
    /\ a.email_key = b.email_key
    /\ header_map_eq(a.headers, b.headers)
    /\ Len(a.attachments) = Len(b.attachments)
    /\ \A n \in 1..Len(a.attachments) :
            attachment_eq(a.attachments[n], b.attachments[n])
    /\ a.parameters = b.parameters

-----------------------------------------------------------------------------
(* email::send(): the stream is the sequence of tokens given to the input  *)
(* pipe of sendmail                                                        *)

g_name_edhttp_field_content_description == "Content-Description"
g_name_edhttp_param_multipart_alternative == "multipart/alternative"

\* std::string(char const *): what a std::string built from s.data() holds,
\* the bytes before the first NUL
RECURSIVE c_str(_)
c_str(s) ==
    IF s = << >> \/ Head(s) = NUL
    THEN << >>
    ELSE <<Head(s)>> \o c_str(Tail(s))

\* body_mime_type.substr(0, 9) == "text/html"
is_text_html(mime_type) ==
    mime_type # << >> /\ Head(mime_type) \in {"text/html", "text/html-special"}

\* edhttp::string_part::get_parameter() on part 0 of a parsed field value
http_get_parameter(v, name) ==
    LET at == {n \in 1..Len(v) - 2 : v[n] = name /\ v[n + 1] = "="} IN
    IF at = {} THEN ""
    ELSE v[(CHOOSE n \in at : \A m \in at : n <= m) + 2]

\* string_part::add_parameter() followed by weighted_http_string::to_string()
http_add_parameter(v, name, value) ==
    LET at == {n \in 1..Len(v) - 2 : v[n] = name /\ v[n + 1] = "="} IN
    IF at = {} THEN v \o <<"; ", name, "=", value>>
    ELSE [n \in 1..Len(v) |-> IF n - 2 \in at THEN value ELSE v[n]]

\* a copy that leaves a name the Content-Type already has as it is
copy_filename_to_content_type_unless_named(attachment_headers) ==
    IF /\ header_has(attachment_headers, g_name_edhttp_field_content_disposition)
       /\ header_has(attachment_headers, g_name_edhttp_field_content_type)
    THEN LET content_disposition ==
                 header_value(attachment_headers, g_name_edhttp_field_content_disposition)
             content_type ==
                 header_value(attachment_headers, g_name_edhttp_field_content_type)
             filename == http_get_parameter(content_disposition, "filename")
             name == http_get_parameter(content_type, "name")
         IN IF content_disposition = << >> \/ content_type = << >>
            THEN attachment_headers
            ELSE IF filename # "" /\ name = ""
            THEN header_set(attachment_headers, g_name_edhttp_field_content_type,
                            http_add_parameter(content_type, "name", filename))
            ELSE IF filename = "" /\ name # ""
            THEN header_set(attachment_headers, g_name_edhttp_field_content_disposition,
                            http_add_parameter(content_disposition, "filename", name))
            ELSE attachment_headers
    ELSE attachment_headers

copy_filename_to_content_type(attachment_headers) ==
    IF /\ header_has(attachment_headers, g_name_edhttp_field_content_disposition)
       /\ header_has(attachment_headers, g_name_edhttp_field_content_type)
    THEN LET content_disposition ==
                 header_value(attachment_headers, g_name_edhttp_field_content_disposition)
             content_type ==
                 header_value(attachment_headers, g_name_edhttp_field_content_type)
             filename == http_get_parameter(content_disposition, "filename")
             name == http_get_parameter(content_type, "name")
         IN IF content_disposition = << >> \/ content_type = << >>
            THEN attachment_headers
            ELSE IF filename # ""
            THEN header_set(attachment_headers, g_name_edhttp_field_content_type,
                            http_add_parameter(content_type, "name", filename))
            ELSE IF name # ""
            THEN header_set(attachment_headers, g_name_edhttp_field_content_disposition,
                            http_add_parameter(content_disposition, "filename", name))
            ELSE attachment_headers
    ELSE attachment_headers

\* the loops "for(auto const & it : headers)" of send(): one line per entry
\* of the map, in the order of the map
RECURSIVE header_lines_of(_, _)
header_lines_of(h, ks) ==
    IF ks = << >> THEN << >>
    ELSE <<h[Head(ks)].name, ": ">> \o h[Head(ks)].value \o <<"\n">>
         \o header_lines_of(h, Tail(ks))

header_lines(h) == header_lines_of(h, map_keys(h))

\* the two lines written when f_branding is set
branding_lines ==
    <<"X-Generated-By: Snap! Websites C++ v", "LIBMIMEMAIL_VERSION_STRING",
      " (https://snapwebsites.org/)", "\n",
      "X-Mailer: Snap! Websites C++ v", "LIBMIMEMAIL_VERSION_STRING",
      " (https://snapwebsites.org/)", "\n">>

\* the text written before the first part of a multipart message
preamble ==
    <<"The following are various parts of a multipart email.", "\n",
      "It is likely to include a text version (first part) that you should", "\n",
      "be able to read as is.", "\n",
      "It may be followed by HTML and then various attachments.", "\n",
      "Please consider installing a MIME capable client to read this email.", "\n",
      "\n">>

\* boundary = "=Snap.Websites=" + 20 characters drawn with rand()
make_boundary(rand) == <<"=Snap.Websites=", rand>>

\* the local copy of f_headers that send() completes before writing it
send_headers(e, body_attachment, body_only, boundary, now) ==
    LET h1 == IF body_only
              THEN IF header_value(body_attachment.headers,
                                   g_name_edhttp_field_content_transfer_encoding)
                        = g_name_edhttp_param_quoted_printable
                   THEN header_set(e.headers,
                                   g_name_edhttp_field_content_transfer_encoding,
                                   g_name_edhttp_param_quoted_printable)
                   ELSE e.headers
              ELSE header_set(
                       header_set(e.headers, g_name_edhttp_field_content_type,
                                  <<"multipart/mixed;", "\n", "  boundary=\"">>
                                  \o boundary \o <<"\"">>),
                       g_name_libmimemail_email_mime_version, <<"1.0">>)
        h2 == IF header_has(h1, g_name_libmimemail_email_date)
              THEN h1
              ELSE header_set(h1, g_name_libmimemail_email_date,
                              <<date_to_string(now)>>)
    IN IF header_has(h2, g_name_edhttp_field_content_language)
       THEN h2
       ELSE header_set(h2, g_name_edhttp_field_content_language, <<"en-us">>)

\* the block written when html2text gave a plain text: the alternative
\* container, the text part, then the body attachment
send_alternative(body_attachment, plain_text, boundary) ==
    <<"--">> \o boundary \o <<"\n">>
    \o <<g_name_edhttp_field_content_type, ": ",
         g_name_edhttp_param_multipart_alternative, ";", "\n", "  boundary-\"">>
    \o boundary \o <<".msg\"", "\n", "\n">>
    \o <<"--">> \o boundary \o <<".msg", "\n">>
    \o <<"\n">>
    \o <<g_name_edhttp_field_content_type, ": text/plain; charset=\"utf-8\"", "\n">>
    \o <<g_name_edhttp_field_content_transfer_encoding, ": ">>
    \o g_name_edhttp_param_quoted_printable \o <<"\n">>
    \o <<g_name_edhttp_field_content_description, ": Mail message body", "\n">>
    \o <<"\n">>
    \o quoted_printable_encode(plain_text)
    \o <<"\n">>
    \o <<"--">> \o boundary \o <<".msg", "\n">>
    \o header_lines(body_attachment.headers)
    \o <<"\n">>
    \o c_str(body_attachment.data)
    \o <<"--">> \o boundary \o <<".msg--", "\n", "\n">>

\* the turn of the loop without the boundary written before the attachment
send_attachment_without_delimiter(a, boundary) ==
    header_lines(copy_filename_to_content_type(a.headers))
    \o <<"\n">>
    \o c_str(a.data)
    \o <<"\n">>

\* one turn of the loop over the remaining attachments
send_attachment(a, boundary) ==
    <<"--">> \o boundary \o <<"\n">>
    \o header_lines(copy_filename_to_content_type(a.headers))
    \o <<"\n">>
    \o c_str(a.data)
    \o <<"\n">>

RECURSIVE send_attachments(_, _)
send_attachments(as, boundary) ==
    IF as = << >> THEN << >>
    ELSE send_attachment(Head(as), boundary) \o send_attachments(Tail(as), boundary)

\* everything send() adds to the input pipe of sendmail
send_stream(e, plain_text, rand, now) ==
    LET body_attachment == e.attachments[1]
        max_attachments == get_attachment_count(e)
        body_only == max_attachments = 1 /\ plain_text = << >>
        boundary == IF body_only THEN << >> ELSE make_boundary(rand)
    IN header_lines(send_headers(e, body_attachment, body_only, boundary, now))
       \o (IF e.branding THEN branding_lines ELSE << >>)
       \o <<"\n">>
       \o (IF body_only
           THEN c_str(body_attachment.data) \o <<"\n">>
           ELSE preamble
                \o (IF plain_text # << >>
                    THEN send_alternative(body_attachment, plain_text, boundary)
                         \o send_attachments(Tail(e.attachments), boundary)
                    ELSE send_attachments(e.attachments, boundary))
                \o <<"--">> \o boundary \o <<"--", "\n">>)
       \o <<"\n", ".", "\n">>

\* what a call of send() did: how it ended ("true", "false" or the
\* exception thrown), the steps taken on the two processes in their order,
\* the arguments and the input given to sendmail, the text html2text gave
send_outcome(result, events, args, out, plain_text) ==
    [result |-> result, events |-> events, args |-> args, out |-> out,
     plain_text |-> plain_text]

\* a send() that runs html2text on a body of any type
send_html2text_any_type(body_attachment, x) ==
    LET html_data ==
            IF header_value(body_attachment.headers,
                            g_name_edhttp_field_content_transfer_encoding)
                    = g_name_edhttp_param_quoted_printable
            THEN quoted_printable_decode(c_str(body_attachment.data))
            ELSE c_str(body_attachment.data)
        r == IF x.h2t_start # 0 THEN x.h2t_start ELSE x.h2t_exit
    IN [events |-> <<"html2text.start">>
                   \o (IF x.h2t_start = 0 THEN <<"html2text.wait">> ELSE << >>),
        html_data |-> html_data,
        plain_text |-> IF r = 0 THEN x.h2t_out ELSE << >>]

\* the part of send() that runs html2text on an HTML body: x holds what the
\* process does (status of start(), of wait(), captured output)
send_html2text(body_attachment, x) ==
    LET body_mime_type ==
            header_value(body_attachment.headers, g_name_edhttp_field_content_type)
        html_data ==
            IF header_value(body_attachment.headers,
                            g_name_edhttp_field_content_transfer_encoding)
                    = g_name_edhttp_param_quoted_printable
            THEN quoted_printable_decode(c_str(body_attachment.data))
            ELSE c_str(body_attachment.data)
        r == IF x.h2t_start # 0 THEN x.h2t_start ELSE x.h2t_exit
    IN IF is_text_html(body_mime_type)
       THEN [events |-> <<"html2text.start">>
                        \o (IF x.h2t_start = 0 THEN <<"html2text.wait">> ELSE << >>),
             html_data |-> html_data,
             plain_text |-> IF r = 0 THEN x.h2t_out ELSE << >>]
       ELSE [events |-> << >>, html_data |-> << >>, plain_text |-> << >>]

\* send() without the test of the To header
send_checks_from_only(e, x) ==
    LET from == header_value(e.headers, g_name_libmimemail_email_from)
        to == header_value(e.headers, g_name_libmimemail_email_to)
    IN
    IF from = << >>
    THEN send_outcome("missing_parameter", << >>, << >>, << >>, << >>)
    ELSE IF get_attachment_count(e) < 1
    THEN send_outcome("missing_parameter", << >>, << >>, << >>, << >>)
    ELSE
        LET h2t == send_html2text(e.attachments[1], x)
            from_list == tld_email_list_parse(from)
            to_list == tld_email_list_parse(to)
        IN
        IF from_list.result # "TLD_RESULT_SUCCESS" \/ from_list.emails = << >>
        THEN send_outcome("invalid_parameter", h2t.events, << >>, << >>, h2t.plain_text)
        ELSE IF to_list.result # "TLD_RESULT_SUCCESS" \/ to_list.emails = << >>
        THEN send_outcome("invalid_parameter", h2t.events, << >>, << >>, h2t.plain_text)
        ELSE
            LET args == <<"-f", from_list.emails[1], to_list.emails[1]>> IN
            IF x.start_status # 0
            THEN send_outcome("false", h2t.events \o <<"sendmail.start">>,
                              args, << >>, h2t.plain_text)
            ELSE send_outcome(IF x.exit_code = 0 THEN "true" ELSE "false",
                              h2t.events \o <<"sendmail.start", "sendmail.wait">>,
                              args,
                              send_stream(e, h2t.plain_text, x.rand, x.now),
                              h2t.plain_text)

\* email::send(); x holds what the environment does during the call: the
\* two processes, rand() and time()
send(e, x) ==
    LET from == header_value(e.headers, g_name_libmimemail_email_from)
        to == header_value(e.headers, g_name_libmimemail_email_to)
    IN
    IF from = << >> \/ to = << >>
    THEN send_outcome("missing_parameter", << >>, << >>, << >>, << >>)
    ELSE IF get_attachment_count(e) < 1
    THEN send_outcome("missing_parameter", << >>, << >>, << >>, << >>)
    ELSE
        LET h2t == send_html2text(e.attachments[1], x)
            from_list == tld_email_list_parse(from)
            to_list == tld_email_list_parse(to)
        IN
        IF from_list.result # "TLD_RESULT_SUCCESS" \/ from_list.emails = << >>
        THEN send_outcome("invalid_parameter", h2t.events, << >>, << >>, h2t.plain_text)
        ELSE IF to_list.result # "TLD_RESULT_SUCCESS" \/ to_list.emails = << >>
        THEN send_outcome("invalid_parameter", h2t.events, << >>, << >>, h2t.plain_text)
        ELSE
            LET args == <<"-f", from_list.emails[1], to_list.emails[1]>> IN
            IF x.start_status # 0
            THEN send_outcome("false", h2t.events \o <<"sendmail.start">>,
                              args, << >>, h2t.plain_text)
            ELSE send_outcome(IF x.exit_code = 0 THEN "true" ELSE "false",
                              h2t.events \o <<"sendmail.start", "sendmail.wait">>,
                              args,
                              send_stream(e, h2t.plain_text, x.rand, x.now),
                              h2t.plain_text)

-----------------------------------------------------------------------------
(* The caller: inputs of the calls *)

AttPayloads == { <<"h">>, <<"<", "=">> }
MimeTypes == { << >>, <<"image/png">> }
AttHeaderNames == { "", "Content-ID" }
Dispositions ==
    { [filename |-> <<"tmp", "f.pdf">>, date |-> 0, type |-> "attachment"],
      [filename |-> << >>, date |-> 1, type |-> "inline"],
      [filename |-> <<"f.pdf">>, date |-> 1, type |-> ""] }
Times == {2}

\* what the environment does during a call of send(): the status of
\* html2text's start() and wait() and its output, the status of sendmail's
\* start() and wait(), the characters rand() draws and the value of time()
SendEnvs ==
    [h2t_start : {0}, h2t_exit : {0}, h2t_out : {<< >>, <<"t", "\n">>},
     start_status : {0, 1}, exit_code : {0, 1}, rand : {"r"}, now : Times]
    \cup [h2t_start : {0, 1}, h2t_exit : {1}, h2t_out : {<< >>},
          start_status : {0}, exit_code : {0}, rand : {"r"}, now : Times]

no_env ==
    [h2t_start |-> 0, h2t_exit |-> 0, h2t_out |-> << >>,
     start_status |-> 0, exit_code |-> 0, rand |-> "", now |-> 0]

\* the outcome of a call that is not send()
no_send == send_outcome("none", << >>, << >>, << >>, << >>)

Call(op, err, i, j) ==
    [op |-> op, err |-> err, i |-> i, j |-> j, arg |-> << >>,
     name |-> "", num |-> 0, path |-> << >>, stream |-> << >>,
     mime |-> << >>,
     a_src |-> new_attachment, a_out |-> new_attachment,
     e_src |-> new_email(0), e_out |-> new_email(0),
     env |-> no_env, send |-> no_send]

Init ==
    /\ att = [i \in AttIds |-> new_attachment]
    /\ email = new_email(1)
    /\ last = Call("none", "none", "-", "-")
    /\ nops = 0

-----------------------------------------------------------------------------
(* The caller: calls on the attachments it holds *)

\* att[i].set_data(d, m) with d and m drawn from the sets D and M
SetData(i, D, M) ==
    \E d \in D, m \in M :
        LET r == set_data(att[i], d, m) IN
        /\ att' = [att EXCEPT ![i] = r.obj]
        /\ last' = [Call("set_data", r.err, i, "-") EXCEPT !.arg = d, !.mime = m]
        /\ nops' = nops + 1
        /\ UNCHANGED email

QuotedPrintableEncodeAndSetData(i, D, M) ==
    \E d \in D, m \in M :
        LET r == quoted_printable_encode_and_set_data(att[i], d, m) IN
        /\ att' = [att EXCEPT ![i] = r.obj]
        /\ last' = [Call("quoted_printable_encode_and_set_data", r.err, i, "-")
                       EXCEPT !.arg = d, !.mime = m]
        /\ nops' = nops + 1
        /\ UNCHANGED email

\* att[i].add_header(n, v) with n and v drawn from the sets N and V
AttachmentAddHeader(i, N, V) ==
    \E n \in N, v \in V :
        LET r == attachment_add_header(att[i], n, v) IN
        /\ att' = [att EXCEPT ![i] = r.obj]
        /\ last' = [Call("attachment_add_header", r.err, i, "-")
                       EXCEPT !.name = n, !.arg = v]
        /\ nops' = nops + 1
        /\ UNCHANGED email

AttachmentRemoveHeader(i) ==
    \E n \in {"content-type"} :
        LET r == attachment_remove_header(att[i], n) IN
        /\ att' = [att EXCEPT ![i] = r.obj]
        /\ last' = Call("attachment_remove_header", r.err, i, "-")
        /\ nops' = nops + 1
        /\ UNCHANGED email

\* att[i].set_content_disposition(d.filename, d.date, d.type), d drawn from D
SetContentDisposition(i, D) ==
    \E d \in D, now \in Times :
        LET r == set_content_disposition(att[i], d.filename, d.date, d.type, now) IN
        /\ att' = [att EXCEPT ![i] = r.obj]
        /\ last' = [Call("set_content_disposition", r.err, i, "-")
                       EXCEPT !.path = d.filename, !.num = d.date, !.name = d.type]
        /\ nops' = nops + 1
        /\ UNCHANGED email

\* att[i].add_related(att[j])
AddRelated(i, j) ==
    LET r == add_related(att[i], att[j]) IN
    /\ att' = [[att EXCEPT ![j] = r.data] EXCEPT ![i] = r.obj]
    /\ last' = Call("add_related", r.err, i, j)
    /\ nops' = nops + 1
    /\ UNCHANGED email

\* att[i] = att[j].get_related(k): a copy of the object the reference names
CopyRelated(i, j) ==
    \E k \in 0..Len(att[j].related) :
        LET r == get_related(att[j], k) IN
        /\ att' = IF r.err = "none" THEN [att EXCEPT ![i] = r.obj] ELSE att
        /\ last' = Call("get_related", r.err, i, j)
        /\ nops' = nops + 1
        /\ UNCHANGED email

\* att[j].serialize(out); att[i].deserialize(in, is_sub) on that stream
AttachmentDeserialize(i, j) ==
    \E is_sub \in BOOLEAN :
        LET r == attachment_deserialize(att[i], attachment_serialize(att[j]), is_sub) IN
        /\ att' = [att EXCEPT ![i] = r.obj]
        /\ last' = Call("attachment_deserialize", r.err, i, j)
        /\ nops' = nops + 1
        /\ UNCHANGED email

\* att[i].serialize(out); attachment a; a.deserialize(in, false)
AttachmentRoundTrip(i) ==
    LET r == attachment_deserialize(new_attachment, attachment_serialize(att[i]), FALSE) IN
    /\ last' = [Call("attachment_round_trip", r.err, i, "-")
                    EXCEPT !.a_src = att[i], !.a_out = r.obj]
    /\ nops' = nops + 1
    /\ UNCHANGED <<att, email>>

-----------------------------------------------------------------------------
(* The caller: calls that put attachments in the email *)

EmailAddAttachment(i) ==
    LET r == add_attachment(email, att[i]) IN
    /\ email' = r.obj
    /\ last' = Call("add_attachment", r.err, i, "-")
    /\ nops' = nops + 1
    /\ UNCHANGED att

EmailSetBodyAttachment(i) ==
    LET r == set_body_attachment(email, att[i]) IN
    /\ email' = r.obj
    /\ last' = Call("set_body_attachment", r.err, i, "-")
    /\ nops' = nops + 1
    /\ UNCHANGED att

\* email.get_attachment(0).add_related(att[j]): get_attachment() returns a
\* read/write reference
EmailAttachmentAddRelated(j) ==
    /\ Len(email.attachments) > 0
    /\ LET r == add_related(email.attachments[1], att[j]) IN
       /\ email' = [email EXCEPT !.attachments[1] = r.obj]
       /\ att' = [att EXCEPT ![j] = r.data]
       /\ last' = Call("add_related", r.err, "-", j)
    /\ nops' = nops + 1

\* email.serialize(out), then deserialize(in) on that stream, by a newly
\* constructed email (which the caller keeps) or by the email itself
EmailDeserialize(F) ==
    \E fresh \in F, t \in Times :
        LET r == email_deserialize(IF fresh THEN new_email(t) ELSE email,
                                   email_serialize(email)) IN
        /\ email' = r.obj
        /\ last' = [Call(IF fresh THEN "email_round_trip" ELSE "email_deserialize",
                         r.err, "-", "-")
                        EXCEPT !.e_src = email, !.e_out = r.obj]
        /\ nops' = nops + 1
        /\ UNCHANGED att

NextAtt ==
    /\ nops < MaxAttOps
    /\ \/ \E i \in AttIds : SetData(i, AttPayloads, MimeTypes)
       \/ \E i \in AttIds : QuotedPrintableEncodeAndSetData(i, AttPayloads, MimeTypes)
       \/ \E i \in AttIds : AttachmentAddHeader(i, AttHeaderNames, {<<"v">>})
       \/ \E i \in AttIds : AttachmentRemoveHeader(i)
       \/ \E i \in AttIds : SetContentDisposition(i, Dispositions)
       \/ \E i, j \in AttIds : AddRelated(i, j)
       \/ \E i, j \in AttIds : CopyRelated(i, j)
       \/ \E i, j \in AttIds : AttachmentDeserialize(i, j)
       \/ \E i \in AttIds : AttachmentRoundTrip(i)
       \/ \E i \in AttIds : EmailAddAttachment(i)
       \/ \E i \in AttIds : EmailSetBodyAttachment(i)
       \/ \E j \in AttIds : EmailAttachmentAddRelated(j)
       \/ EmailDeserialize(BOOLEAN)

SpecAtt == Init /\ [][NextAtt]_vars

-----------------------------------------------------------------------------
(* The caller: calls on the email *)

Strings == { <<"s">> }
Addresses ==
    { << >>, <<"not-an-email">>, <<"a@b.com">>, <<"Al <a@b.com>">>,
      <<"a@b.com", ", ", "c@d.com">> }
EmailHeaderNames == { "", "From", "to", "Subject", "Bcc" }
EmailHeaderValues ==
    { << >>, <<"a@b.com">>, <<"not-an-email">>, <<"a@b.com", ", ", "c@d.com">> }
Priorities == { 0, 4 }
ParameterNames == { "", "p", "From" }
ParameterValues == { <<"v">>, <<"not-an-email">> }

EmailCall(op, r, arg) ==
    /\ email' = r.obj
    /\ last' = [Call(op, r.err, "-", "-") EXCEPT !.arg = arg]
    /\ nops' = nops + 1
    /\ UNCHANGED att

SetBranding == \E b \in {FALSE} : EmailCall("set_branding", set_branding(email, b), << >>)
SetCumulative == \E v \in Strings : EmailCall("set_cumulative", set_cumulative(email, v), v)
SetSiteKey == \E v \in Strings : EmailCall("set_site_key", set_site_key(email, v), v)
SetEmailPath == \E v \in Strings : EmailCall("set_email_path", set_email_path(email, v), v)
SetEmailKey == \E v \in Strings : EmailCall("set_email_key", set_email_key(email, v), v)
SetFrom(A) == \E v \in A : EmailCall("set_from", set_from(email, v), v)
SetTo(A) == \E v \in A : EmailCall("set_to", set_to(email, v), v)
SetSubject == \E v \in Strings : EmailCall("set_subject", set_subject(email, v), v)
SetPriority(P) ==
    \E p \in P :
        LET r == set_priority(email, p) IN
        /\ email' = r.obj
        /\ last' = [Call("set_priority", r.err, "-", "-") EXCEPT !.num = p]
        /\ nops' = nops + 1
        /\ UNCHANGED att

EmailAddHeader(N, V) ==
    \E n \in N, v \in V :
        LET r == email_add_header(email, n, v) IN
        /\ email' = r.obj
        /\ last' = [Call("email_add_header", r.err, "-", "-")
                       EXCEPT !.name = n, !.arg = v]
        /\ nops' = nops + 1
        /\ UNCHANGED att

EmailRemoveHeader ==
    \E n \in {"From", "to"} :
        EmailCall("email_remove_header", email_remove_header(email, n), << >>)

AddParameter(N, V) ==
    \E n \in N, v \in V :
        EmailCall("add_parameter", add_parameter(email, n, v), v)

NextEmail ==
    /\ nops < MaxEmailOps
    /\ \/ SetBranding
       \/ SetCumulative
       \/ SetSiteKey
       \/ SetEmailPath
       \/ SetEmailKey
       \/ SetFrom(Addresses)
       \/ SetTo(Addresses)
       \/ SetSubject
       \/ SetPriority(Priorities)
       \/ EmailAddHeader(EmailHeaderNames, EmailHeaderValues)
       \/ EmailRemoveHeader
       \/ AddParameter(ParameterNames, ParameterValues)
       \/ \E i \in AttIds : SetData(i, AttPayloads, MimeTypes)
       \/ \E i, j \in AttIds : AddRelated(i, j)
       \/ \E i \in AttIds : EmailAddAttachment(i)
       \/ \E i \in AttIds : EmailSetBodyAttachment(i)
       \/ EmailDeserialize(BOOLEAN)

SpecEmail == Init /\ [][NextEmail]_vars

-----------------------------------------------------------------------------
(* The caller: a program that composes an email and sends it *)

SendPayloads == { <<"h">>, <<"<", "=">>, <<"h", NUL, "i">> }
SendAddresses == { <<"Al <a@b.com>">>, <<"a@b.com", ", ", "c@d.com">> }

\* email.send() in an environment drawn from X: the email is const
Send(X) ==
    \E x \in X :
        /\ last' = [Call("send", "none", "-", "-")
                        EXCEPT !.e_src = email, !.env = x, !.send = send(email, x)]
        /\ nops' = nops + 1
        /\ UNCHANGED <<att, email>>

NextSend ==
    /\ nops < MaxSendOps
    /\ \/ SetFrom({<<"Al <a@b.com>">>})
       \/ SetTo(SendAddresses)
       \/ SetBranding
       \/ AddParameter({"From"}, {<<"not-an-email">>})
       \/ EmailDeserialize({TRUE})
       \/ SetData("x", SendPayloads, {<< >>})
       \/ QuotedPrintableEncodeAndSetData("x", {<<"<", "=">>}, {<< >>})
       \/ EmailAddAttachment("x")
       \/ Send(SendEnvs)

SpecSend == Init /\ [][NextSend]_vars

-----------------------------------------------------------------------------
(* The caller: a program that composes a message of several parts, stores  *)
(* it, and sends it with a working sendmail                                *)

RenderPayloads == { <<"h">>, <<"<", "=">> }
RenderEnvs == {x \in SendEnvs : x.h2t_exit = 0 /\ x.start_status = 0 /\ x.exit_code = 0}

NextRender ==
    /\ nops < MaxRenderOps
    /\ \/ SetFrom({<<"Al <a@b.com>">>})
       \/ SetTo({<<"a@b.com">>})
       \/ AddParameter({"p"}, {<<"v">>})
       \/ EmailDeserialize({TRUE})
       \/ SetData("x", RenderPayloads, {<< >>})
       \/ SetData("y", {<<"i">>}, {<<"image/png">>})
       \/ AddRelated("x", "y")
       \/ \E i \in AttIds : EmailAddAttachment(i)
       \/ Send(RenderEnvs)

SpecRender == Init /\ [][NextRender]_vars

-----------------------------------------------------------------------------
(* The caller: a program that fills in the header fields of an attachment  *)
(* and of the email                                                        *)

MaxFieldOps == 3

FieldAttNames == { "", "Content-ID", "content-id" }
FieldEmailNames == { "Subject", "subject", "FROM" }
FieldValues == { <<"a@b.com">>, <<"w">> }
FieldPriorities == 0..6
FieldDispositions ==
    { [filename |-> <<"f.pdf">>, date |-> 0, type |-> "attachment"],
      [filename |-> <<"tmp", "my file.pdf">>, date |-> 1, type |-> "inline"],
      [filename |-> <<"tmp", "">>, date |-> 1, type |-> "attachment"],
      [filename |-> << >>, date |-> 1, type |-> "inline"],
      [filename |-> <<"tmp", "f.pdf">>, date |-> 1, type |-> ""] }

NextFields ==
    /\ nops < MaxFieldOps
    /\ \/ AttachmentAddHeader("x", FieldAttNames, FieldValues)
       \/ AttachmentRemoveHeader("x")
       \/ SetContentDisposition("x", FieldDispositions)
       \/ SetFrom({<<"a@b.com">>})
       \/ SetSubject
       \/ SetPriority(FieldPriorities)
       \/ EmailAddHeader(FieldEmailNames, FieldValues)
       \/ EmailRemoveHeader

SpecFields == Init /\ [][NextFields]_vars

-----------------------------------------------------------------------------
(* The caller: a program that reads attachments and emails from streams    *)
(* that any writer produced                                                *)

MaxStreamOps == 2

\* the fields a stream is made of: fields serialize() writes, a plain field
\* named "header" (the reader leaves f_sub_name empty), fields of names the
\* reader does not know, and attachment blocks nested one, two and three deep
StreamHeader == add_value("header", "Content-ID", <<"v">>)
StreamPlainHeader == add_value("header", "", <<"v">>)
StreamData == add_value("data", "", <<"h">>)
StreamSiteKey == add_value("site_key", "", <<"s">>)
StreamUnknown == add_value("comment", "", <<"u">>)
StreamBlock1 == recursive("attachment", <<StreamUnknown, StreamData>>)
StreamBlock2 == recursive("attachment", <<StreamBlock1>>)
StreamBlock3 == recursive("attachment", <<StreamBlock2>>)

AttachmentFields ==
    { StreamHeader, StreamPlainHeader, StreamData, StreamUnknown,
      StreamBlock1, StreamBlock2 }
EmailFields ==
    { StreamHeader, StreamPlainHeader, StreamSiteKey, StreamUnknown,
      StreamBlock2, StreamBlock3 }

\* the streams of at most two fields of F, and those of two fields of G
\* with a field of an unknown name between them
Streams(F, G) ==
    { << >> } \cup { <<f>> : f \in F } \cup { <<f, g>> : f \in F, g \in F }
    \cup { <<f, StreamUnknown, g>> : f \in G, g \in G }

\* att[i].deserialize(in, is_sub) on a stream of S
AttachmentDeserializeStream(i, S) ==
    \E s \in S, is_sub \in BOOLEAN :
        LET r == attachment_deserialize(att[i], s, is_sub) IN
        /\ att' = [att EXCEPT ![i] = r.obj]
        /\ last' = [Call("attachment_deserialize_stream", r.err, i, "-")
                       EXCEPT !.stream = s, !.a_src = att[i], !.a_out = r.obj]
        /\ nops' = nops + 1
        /\ UNCHANGED email

\* email.deserialize(in) on a stream of S
EmailDeserializeStream(S) ==
    \E s \in S :
        LET r == email_deserialize(email, s) IN
        /\ email' = r.obj
        /\ last' = [Call("email_deserialize_stream", r.err, "-", "-")
                       EXCEPT !.stream = s, !.e_src = email, !.e_out = r.obj]
        /\ nops' = nops + 1
        /\ UNCHANGED att

NextStream ==
    /\ nops < MaxStreamOps
    /\ \/ AttachmentDeserializeStream("x", Streams(AttachmentFields, {StreamHeader, StreamData}))
       \/ EmailDeserializeStream(Streams(EmailFields, {StreamHeader, StreamSiteKey}))
       \/ SetData("x", {<<"h">>}, {<< >>})
       \/ AttachmentAddHeader("x", AttHeaderNames, {<<"v">>})
       \/ AttachmentRemoveHeader("x")
       \/ SetContentDisposition("x", Dispositions)
       \/ SetFrom({<<"a@b.com">>})
       \/ SetTo({<<"a@b.com">>})
       \/ SetSubject
       \/ SetPriority(Priorities)
       \/ EmailAddHeader({"", "Subject"}, {<<"w">>})
       \/ EmailRemoveHeader

SpecStream == Init /\ [][NextStream]_vars

-----------------------------------------------------------------------------
(* The caller: a program that sets the payload of an attachment again and  *)
(* again, encoded or not, with and without a MIME type                     *)

MaxDataOps == 4

DataPayloads == { << >>, <<"h">>, <<"<", "=">> }
DataHeaderNames == { "Content-Type", "Content-Transfer-Encoding" }
DataHeaderValues == { <<"text/html; charset=utf-8">>, <<"base64">> }

NextData ==
    /\ nops < MaxDataOps
    /\ \/ SetData("x", DataPayloads, MimeTypes)
       \/ QuotedPrintableEncodeAndSetData("x", DataPayloads, MimeTypes)
       \/ AttachmentAddHeader("x", DataHeaderNames, DataHeaderValues)
       \/ AttachmentRemoveHeader("x")

SpecData == Init /\ [][NextData]_vars

-----------------------------------------------------------------------------
(* The caller: a program that sends files, named in the Content-Type, in   *)
(* the Content-Disposition, in both or in neither                          *)

MaxSyncOps == 8

SyncMimeTypes ==
    { <<"application/pdf">>, <<"application/pdf", "; ", "name", "=", "old.pdf">> }
SyncDispositions ==
    { [filename |-> <<"tmp", "f.pdf">>, date |-> 1, type |-> "attachment"],
      [filename |-> << >>, date |-> 1, type |-> "attachment"] }

NextSync ==
    /\ nops < MaxSyncOps
    /\ \/ SetFrom({<<"a@b.com">>})
       \/ SetTo({<<"a@b.com">>})
       \/ SetData("x", {<<"h">>}, SyncMimeTypes)
       \/ SetData("y", {<<"<", "=">>}, {<< >>})
       \/ SetContentDisposition("x", SyncDispositions)
       \/ AttachmentRemoveHeader("x")
       \/ \E i \in AttIds : Len(email.attachments) < 2 /\ EmailAddAttachment(i)
       \/ Send(RenderEnvs)

SpecSync == Init /\ [][NextSync]_vars

-----------------------------------------------------------------------------
(* The caller: a program that makes calls the email and the attachments    *)
(* refuse, among calls they accept                                         *)

MaxErrorOps == 3

ErrorAddresses == { <<"a@b.com">>, <<"not-an-email">>, <<"a@b.com", ", ", "c@d.com">> }
ErrorHeaderNames == { "", "From", "Subject" }
ErrorHeaderValues == { <<"a@b.com">>, <<"not-an-email">> }

NextError ==
    /\ nops < MaxErrorOps
    /\ \/ SetFrom(ErrorAddresses)
       \/ SetTo({ << >>, <<"a@b.com">> })
       \/ EmailAddHeader(ErrorHeaderNames, ErrorHeaderValues)
       \/ SetPriority(Priorities)
       \/ AddParameter({"", "p"}, {<<"v">>})
       \/ SetData("x", {<<"h">>}, {<< >>})
       \/ AttachmentAddHeader("x", AttHeaderNames, {<<"v">>})
       \/ SetContentDisposition("x", Dispositions)
       \/ \E i, j \in AttIds : AddRelated(i, j)
       \/ \E j \in AttIds : EmailAddAttachment(j)

SpecError == Init /\ [][NextError]_vars

-----------------------------------------------------------------------------
(* Claims about the attachment (checked under SpecAtt) *)

\* every attachment object of the state: the caller's and the email's
Attachments ==
    {att[i] : i \in AttIds}
    \cup {email.attachments[n] : n \in 1..Len(email.attachments)}

\* C2: serializing a top-level attachment and deserializing the stream, as a
\* top-level attachment, in a new attachment gives an attachment equal
\* (operator ==) to the original: same headers, data, flag and related list.
C2_AttachmentRoundTrip ==
    (last.op = "attachment_round_trip" /\ ~last.a_src.is_sub) =>
        /\ last.err = "none"
        /\ attachment_eq(last.a_out, last.a_src)
        /\ last.a_out.headers = last.a_src.headers
        /\ last.a_out.related = last.a_src.related
        /\ \A n \in 1..Len(last.a_out.related) : last.a_out.related[n].is_sub

C2_Witness ==
    /\ last.op = "attachment_round_trip"
    /\ ~last.a_src.is_sub
    /\ Len(last.a_src.related) > 0
    /\ last.a_src.related[1].data # << >>
    /\ DOMAIN last.a_src.headers # {}

Receiver == IF last'.i = "-" THEN email.attachments[1] ELSE att[last'.i]
ReceiverAfter == IF last'.i = "-" THEN email'.attachments[1] ELSE att'[last'.i]

\* C4: add_related(x) throws too_many_levels when the receiver is a
\* sub-attachment or x has related attachments; otherwise it returns, the
\* receiver's related list being the former one with (the copy of) x added
\* at its end.
C4_AddRelatedContract ==
    [][ last'.op = "add_related" =>
          IF Receiver.is_sub \/ Len(att[last'.j].related) > 0
          THEN last'.err = "too_many_levels"
          ELSE /\ last'.err = "none"
               /\ Len(ReceiverAfter.related) = Len(Receiver.related) + 1
               /\ SubSeq(ReceiverAfter.related, 1, Len(Receiver.related))
                    = Receiver.related
               /\ ReceiverAfter.related[Len(ReceiverAfter.related)]
                    = [att[last'.j] EXCEPT !.is_sub = TRUE]
      ]_vars

C4_Witness ==
    /\ last.op = "add_related"
    /\ last.err = "too_many_levels"
    /\ last.i # "-"
    /\ att[last.i].is_sub
    /\ att[last.j].related = << >>

\* the calls that change the attachment they are made on
AttachmentMutators ==
    {"set_data", "quoted_printable_encode_and_set_data", "attachment_add_header",
     "attachment_remove_header", "set_content_disposition", "add_related",
     "attachment_deserialize"}

\* C5: add_related(x) leaves the caller's x as it was (the receiver aside,
\* when x is the receiver itself), and a later call on x changes neither
\* the sub-attachments stored in the other attachments nor the email's.
C5_DeepCopyOnAttach ==
    [][ /\ (last'.op = "add_related" /\ last'.i # last'.j) =>
                att'[last'.j] = att[last'.j]
        /\ (last'.op \in AttachmentMutators /\ last'.i # "-") =>
                /\ \A p \in AttIds \ {last'.i} : att'[p].related = att[p].related
                /\ email'.attachments = email.attachments
        /\ (last'.op \in AttachmentMutators \ {"add_related", "attachment_deserialize"}
                /\ last'.i # "-") =>
                att'[last'.i].related = att[last'.i].related
      ]_vars

C5_Witness ==
    /\ last.op = "set_data"
    /\ last.i = "x"
    /\ Len(att["y"].related) > 0
    /\ att["y"].related[1].data # att["x"].data
    /\ ~att["x"].is_sub

-----------------------------------------------------------------------------
(* Claims about the email (checked under SpecEmail) *)

\* C1: serializing an email and deserializing the stream in a newly
\* constructed email gives an email equal (operator ==) to the original,
\* with its headers, attachments and parameters in their own members.
C1_EmailRoundTrip ==
    last.op = "email_round_trip" =>
        /\ last.err = "none"
        /\ email_eq(last.e_out, last.e_src)

\* the valid From and To of C6
ValidFrom(e) ==
    header_has(e.headers, g_name_libmimemail_email_from) =>
        LET p == tld_email_list_parse(header_value(e.headers, g_name_libmimemail_email_from))
        IN p.result = "TLD_RESULT_SUCCESS" /\ Len(p.emails) = 1
ValidTo(e) ==
    header_has(e.headers, g_name_libmimemail_email_to) =>
        LET p == tld_email_list_parse(header_value(e.headers, g_name_libmimemail_email_to))
        IN p.result = "TLD_RESULT_SUCCESS" /\ Len(p.emails) >= 1

\* C6: a From header that is present parses as exactly one address and a
\* To header that is present parses as at least one address.
C6_FromToValid == ValidFrom(email) /\ ValidTo(email)

\* C7: set_from(v) returns, with v stored as the From header, exactly when the
\* parser accepts v with one address, and set_to(v) exactly when it accepts
\* v with at least one address; otherwise they throw invalid_parameter.
C7_SetFromSetTo ==
    [][ LET p == tld_email_list_parse(last'.arg) IN
        /\ last'.op = "set_from" =>
              IF p.result = "TLD_RESULT_SUCCESS" /\ Len(p.emails) = 1
              THEN /\ last'.err = "none"
                   /\ header_has(email'.headers, "From")
                   /\ header_value(email'.headers, "From") = last'.arg
              ELSE last'.err = "invalid_parameter"
        /\ last'.op = "set_to" =>
              IF p.result = "TLD_RESULT_SUCCESS" /\ Len(p.emails) >= 1
              THEN /\ last'.err = "none"
                   /\ header_has(email'.headers, "To")
                   /\ header_value(email'.headers, "To") = last'.arg
              ELSE last'.err = "invalid_parameter"
      ]_vars

C7_Witness ==
    /\ last.op = "set_from"
    /\ last.err = "invalid_parameter"
    /\ last.arg = <<"a@b.com", ", ", "c@d.com">>

-----------------------------------------------------------------------------
(* Claims about send() (checked under SpecSend) *)

\* the preconditions of send() on the email it is called on
SendFrom == header_value(last.e_src.headers, g_name_libmimemail_email_from)
SendTo == header_value(last.e_src.headers, g_name_libmimemail_email_to)
SendPreconditions ==
    /\ SendFrom # << >>
    /\ SendTo # << >>
    /\ Len(last.e_src.attachments) >= 1

\* C8: send() throws missing_parameter when the From header is absent or
\* empty, when the To header is absent or empty, or when the email has no
\* attachment; then neither html2text nor sendmail has been started and
\* nothing was given to sendmail.
C8_SendMissingParameter ==
    (last.op = "send" /\ ~SendPreconditions) =>
        /\ last.send.result = "missing_parameter"
        /\ last.send.events = << >>
        /\ last.send.out = << >>

C8_Witness ==
    /\ last.op = "send"
    /\ SendFrom # << >>
    /\ ~header_has(last.e_src.headers, g_name_libmimemail_email_to)
    /\ Len(last.e_src.attachments) >= 1
    /\ is_text_html(header_value(last.e_src.attachments[1].headers,
                                 g_name_edhttp_field_content_type))
    /\ last.send.result = "missing_parameter"

\* C9: on an email with a non-empty From, a non-empty To and at least one
\* attachment, however it was built (deserialize included), send() does not
\* throw: it returns false when sendmail cannot be started, and otherwise
\* true exactly when the exit code of sendmail is 0.
C9_SendNeverRaises ==
    (last.op = "send" /\ SendPreconditions) =>
        /\ last.send.result \in {"true", "false"}
        /\ last.env.start_status # 0 => last.send.result = "false"
        /\ last.env.start_status = 0 =>
                (last.send.result = "true" <=> last.env.exit_code = 0)

\* the top-level headers of a body-only message: the headers of the email,
\* the body's quoted-printable encoding, and the Date and Content-Language
\* that every message gets when the email does not define them
BodyOnlyHeaders ==
    LET e == last.e_src
        cte == header_value(e.attachments[1].headers, "Content-Transfer-Encoding")
        k == (DOMAIN e.headers) \cup {"date", "content-language"}
               \cup (IF cte = <<"quoted-printable">>
                     THEN {"content-transfer-encoding"} ELSE {})
    IN [x \in k |->
          IF x = "content-transfer-encoding" /\ cte = <<"quoted-printable">>
          THEN [name |-> IF x \in DOMAIN e.headers THEN e.headers[x].name
                         ELSE "Content-Transfer-Encoding",
                value |-> <<"quoted-printable">>]
          ELSE IF x \in DOMAIN e.headers THEN e.headers[x]
          ELSE IF x = "date"
          THEN [name |-> "Date", value |-> <<date_to_string(last.env.now)>>]
          ELSE [name |-> "Content-Language", value |-> <<"en-us">>]]

\* C10: when the email has exactly one attachment and html2text gave no
\* plain text, the stream given to sendmail is exactly: one "Name: Value"
\* line per top-level header (Content-Transfer-Encoding: quoted-printable
\* among them when the body carries that encoding), the branding lines if
\* branding is on, an empty line, the payload of the body, a line break, an
\* empty line and a "." line; no boundary, no multipart Content-Type and no
\* MIME-Version come from send().
C10_BodyOnlyRendering ==
    (/\ last.op = "send"
     /\ last.send.events # << >>
     /\ last.send.events[Len(last.send.events)] = "sendmail.wait"
     /\ Len(last.e_src.attachments) = 1
     /\ last.send.plain_text = << >>) =>
        /\ last.send.out =
                header_lines(BodyOnlyHeaders)
                \o (IF last.e_src.branding THEN branding_lines ELSE << >>)
                \o <<"\n">>
                \o last.e_src.attachments[1].data
                \o <<"\n">>
                \o <<"\n", ".", "\n">>
        /\ \A n \in 1..Len(last.send.out) :
                last.send.out[n] \notin {"=Snap.Websites=", "multipart/mixed;", "1.0"}

-----------------------------------------------------------------------------
(* Claims about the multipart rendering (checked under SpecRender) *)

\* send() went as far as giving the whole message to sendmail
SendWrote ==
    /\ last.op = "send"
    /\ last.send.events # << >>
    /\ last.send.events[Len(last.send.events)] = "sendmail.wait"

\* the positions of the stream where the text "--<boundary>" starts
Delimiters ==
    {n \in 1..Len(last.send.out) - 3 :
        /\ last.send.out[n] = "--"
        /\ last.send.out[n + 1] = "=Snap.Websites="
        /\ last.send.out[n + 2] = last.env.rand}

\* a position of the stream at the start of a line
AtLineStart(n) == n = 1 \/ last.send.out[n - 1] = "\n"

\* C11: with n >= 2 attachments and no plain text from html2text, the
\* stream holds the boundary as a delimiter n + 1 times: n lines
\* "--<boundary>", one before each attachment, then one "--<boundary>--"
\* line, the last delimiter; an empty line and a "." line end the stream.
C11_MultipartMixed ==
    (/\ SendWrote
     /\ Len(last.e_src.attachments) >= 2
     /\ last.send.plain_text = << >>) =>
        LET out == last.send.out
            openers == {n \in Delimiters : out[n + 3] = "\n"}
            closers == {n \in Delimiters :
                            /\ n + 4 <= Len(out)
                            /\ out[n + 3] = "--"
                            /\ out[n + 4] = "\n"}
        IN /\ Cardinality(Delimiters) = Len(last.e_src.attachments) + 1
           /\ Cardinality(openers) = Len(last.e_src.attachments)
           /\ closers = {Len(out) - 7}
           /\ \A n \in Delimiters : AtLineStart(n) /\ n <= Len(out) - 7
           /\ SubSeq(out, Len(out) - 2, Len(out)) = <<"\n", ".", "\n">>

C11_Witness ==
    /\ SendWrote
    /\ Len(last.e_src.attachments) = 2
    /\ last.send.plain_text = << >>
    /\ last.e_src.attachments[1].data # << >>
    /\ Cardinality(Delimiters) = 3

\* the alternative block as C12 lays it out
AlternativeAsClaimed ==
    LET b == <<"=Snap.Websites=", last.env.rand>>
        body == last.e_src.attachments[1]
    IN <<"--">> \o b \o <<"\n">>
       \o <<"Content-Type", ": ", "multipart/alternative", ";", "\n",
            "  boundary=\"">> \o b \o <<".msg\"", "\n", "\n">>
       \o <<"--">> \o b \o <<".msg", "\n">>
       \o <<"Content-Type", ": text/plain; charset=\"utf-8\"", "\n">>
       \o <<"Content-Transfer-Encoding", ": ", "quoted-printable", "\n">>
       \o <<"Content-Description", ": Mail message body", "\n">>
       \o <<"\n">>
       \o quoted_printable_encode(last.send.plain_text)
       \o <<"\n">>
       \o <<"--">> \o b \o <<".msg", "\n">>
       \o header_lines(body.headers)
       \o <<"\n">>
       \o body.data
       \o <<"\n">>
       \o <<"--">> \o b \o <<".msg--", "\n">>

\* C12: when html2text gave a plain text, the stream holds in this order the
\* outer delimiter line, the multipart/alternative header, the
\* "--<boundary>.msg" line directly followed by the three header lines of
\* the text/plain part, an empty line, the quoted-printable plain text, a
\* second "--<boundary>.msg" line, the header lines of the body attachment,
\* an empty line, the body payload and the "--<boundary>.msg--" line; the
\* other attachments follow from index 1, attachment 0 being written once.
C12_MultipartAlternative ==
    (SendWrote /\ last.send.plain_text # << >>) =>
        LET out == last.send.out
            len == Len(AlternativeAsClaimed)
        IN /\ \E p \in 1..Len(out) :
                /\ p + len - 1 <= Len(out)
                /\ SubSeq(out, p, p + len - 1) = AlternativeAsClaimed
           /\ Cardinality({n \in Delimiters : out[n + 3] = "\n"})
                = Len(last.e_src.attachments)

\* the text t occurs in the stream
InStream(t) ==
    \E p \in 1..Len(last.send.out) :
        /\ p + Len(t) - 1 <= Len(last.send.out)
        /\ SubSeq(last.send.out, p, p + Len(t) - 1) = t

\* C13: when the body attachment has related sub-attachments, the stream
\* holds the header lines and the payload of each of them, in a
\* multipart/related part with the body.
C13_RelatedRendered ==
    (SendWrote /\ Len(last.e_src.attachments[1].related) > 0) =>
        /\ InStream(<<"multipart/related">>)
        /\ \A n \in 1..Len(last.e_src.attachments[1].related) :
              LET r == last.e_src.attachments[1].related[n] IN
              InStream(header_lines(r.headers) \o <<"\n">> \o r.data)

\* C14: a pair added with add_parameter never becomes a header line of the
\* message: send() writes no line for a parameter of the email, and an
\* email restored from its serialization has the header lines of the
\* original while get_parameter() still returns every parameter's value.
C14_ParametersNotHeaders ==
    /\ SendWrote =>
          \A n \in DOMAIN last.e_src.parameters :
              ~header_has(last.e_src.headers, n) => ~InStream(<<n, ": ">>)
    /\ last.op = "email_round_trip" =>
          /\ header_lines(last.e_out.headers) = header_lines(last.e_src.headers)
          /\ \A n \in DOMAIN last.e_src.parameters :
                get_parameter(last.e_out, n).value = last.e_src.parameters[n]

-----------------------------------------------------------------------------
(* Claims about the header fields (checked under SpecFields) *)

\* the names the caller can spell
HeaderNames == DOMAIN case_fold \cup FieldAttNames \cup FieldEmailNames

\* C15: a header added under one spelling of a name is read back under every
\* spelling of that name; adding it again under another spelling keeps one
\* entry, which holds the last value and the first spelling, and no other
\* entry changes. On an attachment add_header() fails only for an empty name.
C15_HeaderSetGet ==
    [][ /\ last'.op = "attachment_add_header" =>
              (last'.err = "none" <=> last'.name # "")
        /\ (last'.op \in {"attachment_add_header", "email_add_header"}
             /\ last'.err = "none") =>
              LET on_att == last'.op = "attachment_add_header"
                  before == IF on_att THEN att[last'.i].headers ELSE email.headers
                  after == IF on_att THEN att'[last'.i].headers ELSE email'.headers
                  k == to_case_insensitive_string(last'.name)
                  get(m) == IF on_att
                            THEN attachment_get_header(att'[last'.i], m)
                            ELSE email_get_header(email', m)
              IN /\ \A m \in HeaderNames :
                        to_case_insensitive_string(m) = k =>
                            get(m) = [err |-> "none", value |-> last'.arg]
                 /\ DOMAIN after = DOMAIN before \cup {k}
                 /\ after[k].name = IF k \in DOMAIN before
                                    THEN before[k].name ELSE last'.name
                 /\ \A x \in DOMAIN before \ {k} : after[x] = before[x]
      ]_vars

\* "content-id" was added after "Content-ID": one entry, the last value
C15_Witness ==
    /\ last.op = "attachment_add_header"
    /\ last.err = "none"
    /\ last.name = "content-id"
    /\ last.arg = <<"w">>
    /\ att["x"].headers["content-id"] = [name |-> "Content-ID", value |-> <<"w">>]

\* the four fields set_priority() writes
PriorityFields == { "X-Priority", "X-MSMail-Priority", "Importance", "Precedence" }

\* C19: set_priority(level) with a level of 1..5 (BULK..URGENT) sets
\* X-Priority to "<ordinal> (<label>)" and X-MSMail-Priority, Importance and
\* Precedence to the label of that level; with any other level it raises
\* invalid_parameter and leaves the four fields as they were.
C19_SetPriority ==
    [][ last'.op = "set_priority" =>
          LET level == last'.num
              ordinal == <<"1", "2", "3", "4", "5">>
          IN IF level \in 1..5
             THEN /\ last'.err = "none"
                  /\ email_get_header(email', "X-Priority").value
                       = <<ordinal[level], " (", priority_name[level], ")">>
                  /\ \A f \in PriorityFields \ {"X-Priority"} :
                        email_get_header(email', f).value = <<priority_name[level]>>
             ELSE /\ last'.err = "invalid_parameter"
                  /\ \A f \in PriorityFields :
                        /\ header_has(email'.headers, f) = header_has(email.headers, f)
                        /\ email_get_header(email', f) = email_get_header(email, f)
      ]_vars

\* a level out of range was refused after URGENT had been set
C19_Witness ==
    /\ last.op = "set_priority"
    /\ last.num = 6
    /\ last.err = "invalid_parameter"
    /\ email_get_header(email, "X-Priority").value = <<"5", " (", "urgent", ")">>
    /\ email_get_header(email, "Importance").value = <<"urgent">>

\* the tokens of a text
Tokens(v) == { v[k] : k \in 1..Len(v) }

\* C20: set_content_disposition(filename, date, type) with an empty type
\* raises invalid_parameter and leaves the headers unchanged; otherwise the
\* Content-Disposition value starts with the type, its filename parameter
\* is the url-encoded last component of the path, no directory of the path
\* appears in the value, and a path without a last component gives no
\* filename parameter.
C20_ContentDisposition ==
    [][ last'.op = "set_content_disposition" =>
          LET a == att[last'.i]
              b == att'[last'.i]
              path == last'.path
              type == last'.name
              last_component == IF path = << >> THEN "" ELSE path[Len(path)]
              v == attachment_get_header(b, "Content-Disposition").value
          IN IF type = ""
             THEN /\ last'.err = "invalid_parameter"
                  /\ b.headers = a.headers
             ELSE /\ last'.err = "none"
                  /\ Len(v) >= 2
                  /\ SubSeq(v, 1, 2) = <<type, ";">>
                  /\ \A k \in 1..(Len(path) - 1) :
                        path[k] # last_component => path[k] \notin Tokens(v)
                  /\ IF last_component = ""
                     THEN "filename" \notin Tokens(v)
                     ELSE /\ Len(v) >= 7
                          /\ SubSeq(v, 3, 7)
                               = <<" ", "filename", "=", urlencode(last_component), ";">>
                          /\ Cardinality({k \in 1..Len(v) : v[k] = "filename"}) = 1
      ]_vars

\* a file given with its directory: only the encoded name is stored
C20_Witness ==
    /\ last.op = "set_content_disposition"
    /\ last.err = "none"
    /\ last.path = <<"tmp", "my file.pdf">>
    /\ "my%20file.pdf" \in Tokens(attachment_get_header(att["x"], "Content-Disposition").value)
    /\ "tmp" \notin Tokens(attachment_get_header(att["x"], "Content-Disposition").value)

-----------------------------------------------------------------------------
(* Claims about the streams read (checked under SpecStream) *)

\* every header map of the state: the email's, those of the attachments and
\* those of their related sub-attachments
HeaderMaps ==
    {email.headers}
    \cup {a.headers : a \in Attachments}
    \cup UNION {{a.related[n].headers : n \in 1..Len(a.related)} : a \in Attachments}

\* C16: whatever the calls made and the streams read, no header map holds an
\* entry with an empty name.
C16_HeaderNamesNotEmpty ==
    \A h \in HeaderMaps : \A k \in DOMAIN h : k # "" /\ h[k].name # ""

\* the names of the fields each reader knows
AttachmentFieldNames == { "header", "attachment", "data" }
EmailFieldNames ==
    { "attachment", "branding", "cumulative", "email_path", "email_key",
      "header", "parameter", "site_key" }

\* a stream without the fields its reader does not know; the fields of an
\* attachment block are read by an attachment
RECURSIVE WithoutUnknown(_, _)
WithoutUnknown(s, names) ==
    IF s = << >>
    THEN << >>
    ELSE LET f == Head(s)
             rest == WithoutUnknown(Tail(s), names)
         IN IF f.name \notin names
            THEN rest
            ELSE IF f.name = "attachment"
            THEN <<[f EXCEPT !.block = WithoutUnknown(@, AttachmentFieldNames)]>> \o rest
            ELSE <<f>> \o rest

\* the field at k is the last of the stream with its name and sub-name
LastOfItsName(s, k) ==
    \A m \in (k + 1)..Len(s) :
        \/ s[m].name # s[k].name
        \/ to_case_insensitive_string(s[m].sub) # to_case_insensitive_string(s[k].sub)

C18_DeserializeNeverRaises ==
    last.op \in {"attachment_deserialize_stream", "email_deserialize_stream"} =>
        last.err = "none"

-----------------------------------------------------------------------------
(* Claims about the payload of an attachment (checked under SpecData) *)

\* the attachment carries a Content-Type the caller gave in the call before:
\* as the MIME type of set_data() or with add_header()
ExplicitContentType ==
    /\ last.err = "none"
    /\ \/ last.op = "set_data" /\ last.mime # << >>
       \/ /\ last.op = "attachment_add_header"
          /\ to_case_insensitive_string(last.name) = "content-type"

\* C21: set_data(d, m) stores d; with a MIME type m the Content-Type is m;
\* without one it is the sniffer's guess for d when the attachment has no
\* Content-Type, and a Content-Type the caller gave explicitly is kept.
C21_SetDataContentType ==
    [][ last'.op = "set_data" =>
          LET a == att[last'.i]
              b == att'[last'.i]
              content_type(x) == attachment_get_header(x, "Content-Type").value
          IN /\ last'.err = "none"
             /\ b.data = last'.arg
             /\ last'.mime # << >> => content_type(b) = last'.mime
             /\ (last'.mime = << >> /\ ~header_has(a.headers, "Content-Type")) =>
                   content_type(b) = get_mime_type(last'.arg)
             /\ (last'.mime = << >> /\ last.i = last'.i /\ ExplicitContentType) =>
                   content_type(b) = content_type(a)
      ]_vars

-----------------------------------------------------------------------------
(* Claims about the names of the files sent (checked under SpecSync) *)

\* the headers of an attachment as the claim has them written: with both
\* fields, the filename of the Content-Disposition becomes the name of the
\* Content-Type; without a filename, the name of the Content-Type becomes
\* the filename of the Content-Disposition
SyncedHeaders(h) ==
    IF "content-disposition" \notin DOMAIN h \/ "content-type" \notin DOMAIN h
    THEN h
    ELSE LET filename == http_get_parameter(h["content-disposition"].value, "filename")
             name == http_get_parameter(h["content-type"].value, "name")
         IN IF filename # ""
            THEN [h EXCEPT !["content-type"].value =
                                http_add_parameter(@, "name", filename)]
            ELSE IF name # ""
            THEN [h EXCEPT !["content-disposition"].value =
                                http_add_parameter(@, "filename", name)]
            ELSE h

\* the attachments the loop over the remaining attachments writes
RemainingAttachments ==
    LET as == last.e_src.attachments IN
    IF last.send.plain_text # << >> THEN {n \in 2..Len(as) : TRUE}
    ELSE IF Len(as) >= 2 THEN 1..Len(as)
    ELSE {}

\* every remaining attachment is in the stream as a delimiter line, the
\* lines of its synced headers, an empty line and its payload
SyncedInStream ==
    SendWrote =>
        \A n \in RemainingAttachments :
            LET a == last.e_src.attachments[n]
                h == SyncedHeaders(a.headers)
            IN /\ InStream(<<"\n", "--", "=Snap.Websites=", last.env.rand, "\n">>
                           \o header_lines(h) \o <<"\n">> \o c_str(a.data) \o <<"\n">>)
               /\ DOMAIN h = DOMAIN a.headers
               /\ ("content-disposition" \in DOMAIN h /\ "content-type" \in DOMAIN h) =>
                     LET filename == http_get_parameter(a.headers["content-disposition"].value,
                                                        "filename")
                         name == http_get_parameter(a.headers["content-type"].value, "name")
                     IN /\ filename # "" =>
                              http_get_parameter(h["content-type"].value, "name") = filename
                        /\ (filename = "" /\ name # "") =>
                              http_get_parameter(h["content-disposition"].value, "filename")
                                = name

\* C22: send() writes each remaining attachment with the filename of its
\* Content-Disposition as the name of its Content-Type (replacing a name
\* it had), or, without a filename, with the name of its Content-Type as
\* the filename of its Content-Disposition; an attachment without one of
\* the two fields is written as it is; and the email holds after send()
\* the attachments it held before.
C22_FilenameSync ==
    /\ SyncedInStream
    /\ last.op = "send" => email = last.e_src

\* a file named old.pdf in its Content-Type and f.pdf in its
\* Content-Disposition was sent as f.pdf in both
C22_Witness ==
    /\ SendWrote
    /\ \E n \in RemainingAttachments :
          /\ http_get_parameter(
                 attachment_get_header(last.e_src.attachments[n], "Content-Type").value,
                 "name") = "old.pdf"
          /\ http_get_parameter(
                 attachment_get_header(last.e_src.attachments[n], "Content-Disposition").value,
                 "filename") = "f.pdf"
    /\ InStream(<<"Content-Type", ": ", "application/pdf", "; ", "name", "=", "f.pdf", "\n">>)
    /\ ~InStream(<<"old.pdf">>)

-----------------------------------------------------------------------------
(* Claims about the list of attachments (checked under SpecEmail) *)

\* C23: set_body_attachment(a) puts a copy of a before the attachments the
\* email holds and add_attachment(a) puts one after them, so the list is
\* the bodies set, the last one first, then the attachments added in the
\* order of the calls; each call makes the count one larger, and the
\* attachment at index 0 is the body set last (the first attachment added
\* when no body was set).
C23_AttachmentOrder ==
    [][ /\ last'.op = "set_body_attachment" =>
              /\ last'.err = "none"
              /\ email'.attachments = <<att[last'.i]>> \o email.attachments
              /\ get_attachment_count(email') = get_attachment_count(email) + 1
        /\ last'.op = "add_attachment" =>
              /\ last'.err = "none"
              /\ email'.attachments = email.attachments \o <<att[last'.i]>>
              /\ get_attachment_count(email') = get_attachment_count(email) + 1
              /\ email'.attachments[1] =
                    IF email.attachments = << >>
                    THEN att[last'.i] ELSE email.attachments[1]
      ]_vars

\* a body was set after another attachment had been added
C23_Witness ==
    /\ last.op = "set_body_attachment"
    /\ get_attachment_count(email) = 2
    /\ email.attachments[1] = att[last.i]
    /\ email.attachments[2] # email.attachments[1]

-----------------------------------------------------------------------------
(* Claims about the level of the attachments (checked under SpecAtt) *)

\* C24: an attachment of the list of the email is not marked as a
\* sub-attachment, and every attachment of a list of related attachments is.
C24_SubAttachmentFlag ==
    /\ \A n \in 1..Len(email.attachments) : ~email.attachments[n].is_sub
    /\ \A a \in Attachments :
          \A n \in 1..Len(a.related) : a.related[n].is_sub

-----------------------------------------------------------------------------
(* Claims about the processes send() runs (checked under SpecSend) *)

\* how many times a step was taken
Count(events, step) == Cardinality({n \in 1..Len(events) : events[n] = step})

C26_Envelope ==
    (last.op = "send" /\ Count(last.send.events, "sendmail.start") = 1) =>
        last.send.args
            = <<"-f", tld_email_list_parse(SendFrom).emails[1]>>
              \o tld_email_list_parse(SendTo).emails

-----------------------------------------------------------------------------
(* Claims about the calls refused (checked under SpecError) *)

\* the calls that change the email or an attachment and can refuse to
RaisingMutators ==
    { "set_from", "set_to", "email_add_header", "set_priority", "add_parameter",
      "attachment_add_header", "set_content_disposition", "add_related" }

\* C27: when set_from, set_to, add_header, set_priority or add_parameter of
\* the email, or add_header, set_content_disposition or add_related of an
\* attachment throws invalid_parameter or too_many_levels, the email and
\* the attachments (headers, data, lists, parameters) are what they were
\* before the call; and these calls throw nothing else.
C27_ErrorsBeforeMutation ==
    [][ last'.op \in RaisingMutators =>
          /\ last'.err \in {"none", "invalid_parameter", "too_many_levels"}
          /\ last'.err # "none" => (email' = email /\ att' = att)
      ]_vars

\* an email with a From refused a From header without a valid address
C27_Witness ==
    /\ last.op = "email_add_header"
    /\ last.err = "invalid_parameter"
    /\ last.name = "From"
    /\ last.arg = <<"not-an-email">>
    /\ email_get_header(email, "From").value = <<"a@b.com">>

-----------------------------------------------------------------------------
(* Claims about the boundaries (checked under SpecRender) *)

\* the boundary send() drew, and whether the message has several parts
SendBoundary == <<"=Snap.Websites=", last.env.rand>>
SendMultipart ==
    SendWrote /\ (Len(last.e_src.attachments) >= 2 \/ last.send.plain_text # << >>)

\* C28: a message of several parts has the header line
\* Content-Type: multipart/mixed; boundary="<boundary>" and delimiter lines
\* --<boundary>; with a plain text, the part of the alternatives has the
\* header line Content-Type: multipart/alternative; boundary="<boundary>.msg"
\* and delimiter lines --<boundary>.msg.
C28_DeclaredBoundaries ==
    SendMultipart =>
        /\ InStream(<<"Content-Type", ": ", "multipart/mixed;", "\n", "  boundary=\"">>
                    \o SendBoundary \o <<"\"", "\n">>)
        /\ InStream(<<"\n", "--">> \o SendBoundary \o <<"\n">>)
        /\ last.send.plain_text # << >> =>
              /\ InStream(<<"Content-Type", ": ">> \o <<g_name_edhttp_param_multipart_alternative>>
                          \o <<";", "\n", "  boundary=\"">>
                          \o SendBoundary \o <<".msg\"", "\n">>)
              /\ InStream(<<"\n", "--">> \o SendBoundary \o <<".msg", "\n">>)

\* C29: every delimiter send() writes ("--" followed by the boundary, with
\* or without ".msg" and a closing "--") stands at the start of a line,
\* whatever the payload written before it ends with.
C29_DelimitersAtLineStart ==
    SendWrote => \A n \in Delimiters : AtLineStart(n)

-----------------------------------------------------------------------------
(* Claims about the encoding of the payload (checked under SpecData) *)

\* C30: the Content-Transfer-Encoding of an attachment is quoted-printable
\* only when its payload is a text the codec produces, and it is after
\* quoted_printable_encode_and_set_data(d), which stores the encoding of d;
\* set_data(d) stores d and leaves no quoted-printable mark on a payload
\* that is not encoded.
C30_TransferEncoding ==
    LET a == att["x"]
        encoding == attachment_get_header(a, "Content-Transfer-Encoding").value
    IN /\ encoding = <<"quoted-printable">> =>
             \E d \in DataPayloads : a.data = quoted_printable_encode(d)
       /\ last.op = "quoted_printable_encode_and_set_data" =>
             /\ a.data = quoted_printable_encode(last.arg)
             /\ encoding = <<"quoted-printable">>
       /\ last.op = "set_data" => a.data = last.arg

====
